---- MODULE Spec2Model ----
(***************************************************************************)
(* Customer-state store (aegis.state.state_manager), health analysis       *)
(* (aegis.tools.customer_context), the proactive monitor                   *)
(* (aegis.monitors.proactive_monitor), the query router                    *)
(* (aegis.agents.orchestrator_agent) and the agent messaging               *)
(* (aegis.agents.base, aegis.transports.in_memory_transport) of aegis.     *)
(*                                                                         *)
(* Time is counted in whole seconds since the StateManager was built.      *)
(* error_rate is kept in hundredths (0.15 is 15), so every threshold of    *)
(* the code is an integer comparison with the same outcome.                *)
(*                                                                         *)
(* Specifications:                                                         *)
(*   Spec       ticks of _check_all_customers with store calls between     *)
(*   SpecLog    ticks over a store of more than 50 stalled signups         *)
(*   SpecRules  ticks and health reads over one profile of any field values*)
(*   SpecStore  the store under the calls of its callers                   *)
(*   SpecLoop   the monitoring loop under start() and stop()               *)
(*   SpecFrame  the store under update_customer calls that succeed         *)
(*   SpecRouter route_request calls of one orchestrator                    *)
(*   SpecWire   AgentMessage.to_dict and AgentMessage.from_dict            *)
(*   SpecThreads a tick, a manual check and store updates running in       *)
(*              different threads                                          *)
(*   SpecTrack  track_api_activity calls made by several threads           *)
(*   SpecBus    supervisor and specialists over an InMemoryTransport       *)
(*   SpecRecent get_recent_interventions over a growing log                *)
(***************************************************************************)
EXTENDS Integers, Sequences, FiniteSets, TLC

VARIABLES
    customers,      \* StateManager._customers: customer_id -> CustomerProfile
    custOrder,      \* insertion order of the keys of StateManager._customers
    interventions,  \* ProactiveMonitor.interventions
    now,            \* datetime.now(), seconds since construction
    tickPc,         \* _check_all_customers: "idle" or "checking" (inside the for loop)
    snapshot,       \* the list list_customers returned to the running tick
    idx,            \* position of the for loop in snapshot
    checked,        \* history: the checks of the running tick, [id, raised], in order
    appended,       \* history: every record ever appended to interventions
    ticketCalls,    \* history: the create_ticket calls made, [customer_id, at, key]
    acked,          \* history: per customer, the ticket linkage of the last update_customer
                    \*          call that returned normally and supplied it
    event,          \* the call the latest step made and how it ended
    observed,       \* what the latest read of the store returned to its caller
    lock,           \* StateManager._lock: "free", or the task that holds it
    running,        \* ProactiveMonitor.running
    tasks,          \* the tasks start() created, in order; self._task is the last
    stops,          \* the tasks that a stop() call is awaiting
    router,         \* OrchestratorAgent: the route_request call in progress, the
                    \*   _running flags of its specialists, and the last call's outcome
    wire,           \* an AgentMessage, its to_dict() and the from_dict() of that
    track,          \* the track_api_activity calls in progress and how many returned
    bus,            \* InMemoryTransport.message_queue and the history of its traffic
    shown,          \* what the latest get_recent_interventions call returned
    manual,         \* a second _check_all_customers call, running in another thread
    stale           \* history: the profile a store update replaced after the running
                    \*          tick listed the customers and before it checked that one

vars == <<customers, custOrder, interventions, now, tickPc, snapshot, idx,
          checked, appended, ticketCalls, acked, event, observed, lock,
          running, tasks, stops, router, wire, track, bus, shown, manual, stale>>

(* the state of the store and of the monitor *)
core == <<customers, custOrder, interventions, now, tickPc, snapshot, idx,
          checked, appended, ticketCalls, acked, event, observed, lock,
          running, tasks, stops>>

(* the state of the components that the store and the monitor leave alone *)
ext == <<router, wire, track, bus, shown, manual>>

----------------------------------------------------------------------------
(* Program constants *)

SecondsPerHour == 3600
SecondsPerDay == 24 * SecondsPerHour
CheckInterval == 60
DedupHours == 24
TicketHours == 24
StalledHours == 24
MaxInterventions == 50
ErrorSpikePct == 10
EscalatePct == 15
ErrorSpikeCalls == 10
UpsellCalls == 1000

(* get_customer_health: thresholds of the health status and the terms of
   the engagement score *)
AtRiskPct == 10
AttentionHours == 48
NewHours == 24
BaseScore == 50
ActivityScore == 20
LiveScore == 20
LowErrorPct == 5
LowErrorScore == 10
GrowthScore == 10
MaxScore == 100

(* A ticket key KAN-n is the number n; NoTicket is the None that
   _create_jira_ticket returns and that an absent jira_ticket is. *)
NoTicket == 0

(* Bounds of the model *)
MaxShortWaits == 1
MaxDays == 1
MaxNewCustomers == 1
MaxAppended == 120
LogCustomers == 55
MaxStarts == 2
MaxSleeps == 2
MaxTrackCalls == 3
MaxTasks == 3

OnboardingStages ==
    {"new", "trial_created", "api_keys_generated", "first_api_call",
     "integration_validated", "production_ready"}

SubscriptionTiers == {"none", "trial", "starter", "pro", "enterprise"}

(* customer ids *)
DemoNew == 1
DemoTrial == 2
DemoActive == 3
DemoAtRisk == 4
FirstNewId == Len(<<DemoNew, DemoTrial, DemoActive, DemoAtRisk>>) + 1

----------------------------------------------------------------------------
(* CustomerProfile: the fields of the dataclass that the store, the health
   analysis and the monitor read or write. *)

CustomerProfile(id, created, tier, stage, calls, integ, err, trend) ==
    [customer_id |-> id, created_at |-> created, subscription_tier |-> tier,
     onboarding_stage |-> stage, total_api_calls |-> calls,
     integration_status |-> integ, error_rate |-> err, usage_trend |-> trend]

(* The attributes that every CustomerProfile has from its class and that are
   no fields: the method to_dict (and the methods of object) *)
ClassAttributes == {"to_dict"}

(* hasattr(customer, key): a field, an attribute set on the object, or an
   attribute of the class *)
HasAttr(customer, key) == key \in DOMAIN customer \/ key \in ClassAttributes

(* setattr(customer, key, value): a key that is no field yet becomes an
   attribute of the object, in front of the class attribute of that name *)
SetAttr(customer, key, value) ==
    IF key \in DOMAIN customer THEN [customer EXCEPT ![key] = value]
    ELSE (key :> value) @@ customer

(* StateManager._initialize_demo_data *)
DemoCustomers ==
    (DemoNew :> CustomerProfile(DemoNew, 0, "none", "new", 0, "not_started", 0, "stable"))
 @@ (DemoTrial :> CustomerProfile(DemoTrial, 0 - SecondsPerDay, "trial",
                                  "api_keys_generated", 0, "not_started", 0, "stable"))
 @@ (DemoActive :> CustomerProfile(DemoActive, 0 - 30 * SecondsPerDay, "pro",
                                   "production_ready", 1543, "live", 0, "increasing"))
 @@ (DemoAtRisk :> CustomerProfile(DemoAtRisk, 0 - 45 * SecondsPerDay, "starter",
                                   "production_ready", 234, "live", 15, "declining"))

DemoOrder == <<DemoNew, DemoTrial, DemoActive, DemoAtRisk>>

----------------------------------------------------------------------------
(* StateManager *)

(* get_customer: self._customers.get(customer_id); found is FALSE for None *)
GetCustomer(store, id) ==
    IF id \in DOMAIN store THEN [found |-> TRUE, customer |-> store[id]]
    ELSE [found |-> FALSE, customer |-> <<>>]

(* The enum conversions of update_customer: OnboardingStage(value) and
   SubscriptionTier(value) raise ValueError on an unknown value. *)
EnumRejects(key, value) ==
    \/ key = "onboarding_stage" /\ value \notin OnboardingStages
    \/ key = "subscription_tier" /\ value \notin SubscriptionTiers

(* The for loop of update_customer over updates.items(), on one profile:
   the profile after the loop, and whether the loop raised.  A field set
   before the raise stays set: setattr writes the stored object. *)
RECURSIVE ApplyUpdates(_, _)
ApplyUpdates(customer, updates) ==
    IF updates = <<>> THEN [customer |-> customer, raised |-> FALSE]
    ELSE LET key == Head(updates)[1]
             value == Head(updates)[2]
         IN  IF ~HasAttr(customer, key) THEN ApplyUpdates(customer, Tail(updates))
             ELSE IF EnumRejects(key, value) THEN [customer |-> customer, raised |-> TRUE]
             ELSE ApplyUpdates(SetAttr(customer, key, value), Tail(updates))

(* update_customer: how the call ends *)
UpdateStatus(store, id, updates) ==
    IF id \notin DOMAIN store THEN "not_found"
    ELSE IF ApplyUpdates(store[id], updates).raised THEN "invalid"
    ELSE "ok"

UpdateStoreNoCheck(store, id, updates) ==
    IF id \notin DOMAIN store
    THEN store @@ (id :> ApplyUpdates(CustomerProfile(id, 0, "none", "new", 0,
                                                      "not_started", 0, "stable"),
                                      updates).customer)
    ELSE [store EXCEPT ![id] = ApplyUpdates(store[id], updates).customer]

(* update_customer: the store after the call *)
UpdateStore(store, id, updates) ==
    IF id \notin DOMAIN store THEN store
    ELSE [store EXCEPT ![id] = ApplyUpdates(store[id], updates).customer]

(* create_customer: how the call ends *)
CreateStatus(store, data) ==
    IF data.customer_id \in DOMAIN store THEN "already_exists" ELSE "ok"

CreateStoreOverwrite(store, data) ==
    IF data.customer_id \in DOMAIN store
    THEN [store EXCEPT ![data.customer_id] = data]
    ELSE store @@ (data.customer_id :> data)

(* create_customer: the store after the call *)
CreateStore(store, data) ==
    IF data.customer_id \in DOMAIN store THEN store
    ELSE store @@ (data.customer_id :> data)

(* create_customer: the key order of the dict after the call *)
CreateOrder(store, order, data) ==
    IF data.customer_id \in DOMAIN store THEN order
    ELSE Append(order, data.customer_id)

(* list_customers(): list(self._customers.values()), the stored objects in
   insertion order; an object is named by its key *)
ListCustomers(store, order) == order

(* self._lock.  acquire() returns at once when the lock is free, and the
   caller waits otherwise; a block "async with self._lock" contains no
   await, so the task that entered it leaves it in the same step. *)
LockIsFree(l) == l = "free"

AcquireLock(l, task) == task

ReleaseLockNever(l) == l

ReleaseLock(l) == "free"

(* the lock after one "async with self._lock" block run by task *)
WithLock(l, task) == ReleaseLock(AcquireLock(l, task))

----------------------------------------------------------------------------
(* get_customer_health *)

(* round(hours_since_signup, 1), in tenths of an hour.  An age of exactly
   k.x5 hours is rounded up, as round() does for the binary value of 24.05;
   no other tie changes a comparison the code makes. *)
RoundedHours(seconds) ==
    (seconds + SecondsPerHour \div 20) \div (SecondsPerHour \div 10)

(* health_status: four if statements in a row, each overwriting the status
   the ones before it set; age is hours_since_signup, unrounded, in seconds *)
HealthStatus(customer, age) ==
    LET s1 == IF customer.error_rate > AtRiskPct THEN "at_risk" ELSE "healthy"
        s2 == IF customer.usage_trend = "declining" THEN "at_risk" ELSE s1
        s3 == IF /\ customer.onboarding_stage \in {"api_keys_generated", "trial_created"}
                 /\ age > AttentionHours * SecondsPerHour
                 /\ customer.total_api_calls = 0
              THEN "needs_attention" ELSE s2
    IN  IF customer.total_api_calls = 0 /\ age < NewHours * SecondsPerHour
        THEN "new" ELSE s3

Min(a, b) == IF a < b THEN a ELSE b

RawEngagementScore(customer) ==
    BaseScore
    + (IF customer.total_api_calls > 0 THEN ActivityScore ELSE 0)
    + (IF customer.integration_status = "live" THEN LiveScore ELSE 0)
    + (IF customer.error_rate < LowErrorPct THEN LowErrorScore ELSE 0)
    + (IF customer.usage_trend = "increasing" THEN GrowthScore ELSE 0)

EngagementScoreUnclamped(customer) == RawEngagementScore(customer)

(* engagement_score as returned: min(engagement_score, 100) *)
EngagementScore(customer) == Min(RawEngagementScore(customer), MaxScore)

(* get_customer_health: found, the status, the score, and the metrics the
   monitor reads *)
GetCustomerHealth(store, id, t) ==
    LET got == GetCustomer(store, id)
    IN  IF ~got.found THEN [found |-> FALSE]
        ELSE [found |-> TRUE,
              health_status |-> HealthStatus(got.customer, t - got.customer.created_at),
              engagement_score |-> EngagementScore(got.customer),
              hours_since_signup |-> RoundedHours(t - got.customer.created_at),
              error_rate |-> got.customer.error_rate,
              usage_trend |-> got.customer.usage_trend,
              total_api_calls |-> got.customer.total_api_calls]

----------------------------------------------------------------------------
(* ProactiveMonitor *)

Intervention(type, id, t, ticket) ==
    [type |-> type, customer_id |-> id, created_at |-> t, jira_ticket |-> ticket]

(* _detect_issue returning None *)
NoIntervention == Intervention("none", 0, 0, NoTicket)

(* _recently_intervened *)
RecentlyIntervened(log, id, type, t) ==
    \E i \in 1..Len(log) :
        /\ log[i].customer_id = id
        /\ log[i].type = type
        /\ log[i].created_at > t - DedupHours * SecondsPerHour

KeepFirst(log) ==
    IF Len(log) > MaxInterventions THEN SubSeq(log, 1, MaxInterventions) ELSE log

(* self.interventions[-50:] *)
KeepLast(log) ==
    IF Len(log) > MaxInterventions
    THEN SubSeq(log, Len(log) - MaxInterventions + 1, Len(log))
    ELSE log

(* _create_jira_ticket: the new key, or None when create_ticket raises or
   returns no key.  g is what the gateway does with the call. *)
CreateJiraTicket(g, key) == IF g = "ok" THEN key ELSE NoTicket

GatewayResults == {"ok", "raises", "no_key"}

(* What one pass through _detect_issue does: whether it raised, the record
   it returned, whether it called create_ticket, and the store after it. *)
Outcome(raised, rec, called, store) ==
    [raised |-> raised, rec |-> rec, called |-> called, store |-> store]

(* The ticket part of rules 2 and 3: read the ticket linkage of the
   profile, reuse a key younger than 24 hours, otherwise create a ticket
   (when wanted) and store the new linkage; then return the record. *)
Escalation(store, customer, type, wanted, t, g, key) ==
    IF ~HasAttr(customer, "active_ticket_key")
    THEN Outcome(TRUE, NoIntervention, FALSE, store)
    ELSE IF customer.active_ticket_key # NoTicket /\ ~HasAttr(customer, "last_ticket_at")
    THEN Outcome(TRUE, NoIntervention, FALSE, store)
    ELSE LET jira == customer.active_ticket_key
             reuse == /\ jira # NoTicket
                      /\ customer.last_ticket_at > t - TicketHours * SecondsPerHour
             called == ~reuse /\ wanted
             new == IF called THEN CreateJiraTicket(g, key) ELSE NoTicket
         IN  Outcome(FALSE,
                     Intervention(type, customer.customer_id, t,
                                  IF new # NoTicket THEN new ELSE jira),
                     called,
                     IF new # NoTicket
                     THEN UpdateStore(store, customer.customer_id,
                                      << <<"last_ticket_at", t>>,
                                         <<"active_ticket_key", new>> >>)
                     ELSE store)

(* _detect_issue *)
DetectIssue(store, customer, health, log, t, g, key) ==
    LET id == customer.customer_id
    IN  IF /\ customer.onboarding_stage = "api_keys_generated"
           /\ customer.total_api_calls = 0
           /\ health.hours_since_signup > StalledHours * 10
           /\ ~RecentlyIntervened(log, id, "onboarding_check_in", t)
        THEN Outcome(FALSE, Intervention("onboarding_check_in", id, t, NoTicket),
                     FALSE, store)
        ELSE IF /\ health.error_rate > ErrorSpikePct
                /\ customer.total_api_calls > ErrorSpikeCalls
                /\ ~RecentlyIntervened(log, id, "error_debugging", t)
        THEN Escalation(store, customer, "error_debugging",
                        health.error_rate > EscalatePct, t, g, key)
        ELSE IF /\ health.usage_trend = "declining"
                /\ customer.subscription_tier \in {"pro", "enterprise"}
                /\ ~RecentlyIntervened(log, id, "retention_outreach", t)
        THEN Escalation(store, customer, "retention_outreach", TRUE, t, g, key)
        ELSE IF /\ health.usage_trend = "increasing"
                /\ customer.total_api_calls > UpsellCalls
                /\ customer.subscription_tier \in {"trial", "starter"}
                /\ ~RecentlyIntervened(log, id, "upsell_suggestion", t)
        THEN Outcome(FALSE, Intervention("upsell_suggestion", id, t, NoTicket),
                     FALSE, store)
        ELSE Outcome(FALSE, NoIntervention, FALSE, store)

(* The try block of the for loop of _check_all_customers for one customer
   of the list: the health lookup (a health without "metrics" raises
   KeyError in _detect_issue), the detection, and the append. *)
CheckCustomer(store, log, customer, t, g, key) ==
    LET health == GetCustomerHealth(store, customer.customer_id, t)
    IN  IF ~health.found THEN Outcome(TRUE, NoIntervention, FALSE, store)
        ELSE DetectIssue(store, customer, health, log, t, g, key)

(* self.interventions.append(intervention), then [-50:] *)
AppendIntervention(log, rec) ==
    IF rec = NoIntervention THEN log ELSE KeepLast(Append(log, rec))

NextIndexAbort(raised, i, list) == IF raised THEN Len(list) + 1 ELSE i + 1

(* The for loop moves on to the next customer, also after an exception *)
NextIndex(raised, i, list) == i + 1

----------------------------------------------------------------------------
(* Inputs of the store calls *)

(* A customer_id that is never created *)
MissingId == FirstNewId + LogCustomers + MaxNewCustomers + 1

(* The ticket linkage a caller supplies: key KAN-1, created two hours
   before the store was built *)
SuppliedTicketAt == 0 - 2 * SecondsPerHour

UpdateCalls ==
    << [id |-> DemoAtRisk, updates |-> << <<"error_rate", 20>> >>],
       [id |-> DemoAtRisk, updates |-> << <<"error_rate", 5>>,
                                          <<"subscription_tier", "pro">> >>],
       [id |-> DemoAtRisk, updates |-> << <<"active_ticket_key", 1>>,
                                          <<"last_ticket_at", SuppliedTicketAt>> >>],
       [id |-> DemoTrial, updates |-> << <<"total_api_calls", 1500>>,
                                         <<"usage_trend", "increasing">> >>],
       [id |-> MissingId, updates |-> << <<"error_rate", 20>> >>] >>

(* A signup that generated its keys 26 hours before the store was built
   and has made no call *)
StalledSignup(id) ==
    CustomerProfile(id, 0 - 26 * SecondsPerHour, "trial", "api_keys_generated",
                    0, "not_started", 0, "stable")

(* create_customer is called with the next unused id, or with an id that
   is already stored *)
CreateInputs(order) ==
    << StalledSignup(FirstNewId + Len(order) - Len(DemoOrder)),
       CustomerProfile(DemoTrial, 0, "pro", "new", 7, "live", 0, "increasing") >>

Supplies(updates, key) == \E i \in 1..Len(updates) : updates[i][1] = key

Supplied(updates, key) ==
    updates[CHOOSE i \in 1..Len(updates) : updates[i][1] = key][2]

Event(op, id, status, g) ==
    [op |-> op, customer_id |-> id, status |-> status, gateway |-> g]

(* An update_customer call: its arguments and how it ended *)
UpdateEvent(id, status, updates) ==
    [op |-> "update", customer_id |-> id, status |-> status, gateway |-> "-",
     updates |-> updates]

(* update_customer calls with values the store has no check for: an enum
   value outside the enum after and before other fields, and error rates
   outside [0, 1] *)
StoreUpdateCalls ==
    << [id |-> DemoAtRisk, updates |-> << <<"error_rate", 20>>,
                                          <<"subscription_tier", "platinum">> >>],
       [id |-> DemoAtRisk, updates |-> << <<"subscription_tier", "platinum">>,
                                          <<"error_rate", 20>> >>],
       [id |-> DemoAtRisk, updates |-> << <<"usage_trend", "stable">>,
                                          <<"subscription_tier", "enterprise">> >>],
       [id |-> DemoTrial, updates |-> << <<"onboarding_stage", "first_api_call">>,
                                         <<"total_api_calls", 1>> >>],
       [id |-> DemoTrial, updates |-> << <<"total_api_calls", 5>>,
                                         <<"onboarding_stage", "shipped">>,
                                         <<"usage_trend", "increasing">> >>],
       [id |-> DemoNew, updates |-> << <<"error_rate", 150>> >>],
       [id |-> DemoNew, updates |-> << <<"error_rate", 0 - 5>> >>],
       [id |-> DemoActive, updates |-> << <<"error_rate", 100>> >>],
       [id |-> MissingId, updates |-> << <<"subscription_tier", "pro">> >>] >>

(* update_customer calls whose keys are fields, no attribute at all
   (active_ticket_key), or the method to_dict *)
FrameUpdateCalls ==
    << [id |-> DemoNew, updates |-> << <<"active_ticket_key", 1>>,
                                       <<"usage_trend", "increasing">> >>],
       [id |-> DemoNew, updates |-> << <<"to_dict", "overview">> >>],
       [id |-> DemoAtRisk, updates |-> << <<"usage_trend", "stable">>,
                                          <<"subscription_tier", "enterprise">> >>],
       [id |-> DemoAtRisk, updates |-> << <<"error_rate", 20>> >>],
       [id |-> DemoTrial, updates |-> << <<"onboarding_stage", "first_api_call">>,
                                         <<"total_api_calls", 1>> >>],
       [id |-> DemoActive, updates |-> << <<"error_rate", 100>> >>] >>

(* No read has returned yet *)
NothingObserved == [op |-> "none"]

(* A task that start() created runs _monitoring_loop: pc is "created"
   (create_task was called, the coroutine has not run yet), "tick" (inside
   _check_all_customers), "sleep" (at asyncio.sleep) or "done"; cancel is
   set by Task.cancel() until the CancelledError is delivered. *)
LoopTask(pc, cancel) == [pc |-> pc, cancel |-> cancel]

(* Task.cancel() on a task that is not done: the CancelledError is thrown
   into the task at its next step *)
CancelTaskNot(task) == task

CancelTask(task) ==
    IF task.pc = "done" THEN task ELSE LoopTask(task.pc, TRUE)

(* self.running = False in stop() *)
StopRunning(r) == FALSE

(* Where the CancelledError leaves the task: a task cancelled before its
   first step is done; in asyncio.sleep of the try block the loop catches
   it and breaks *)
AfterCancel(pc) == "done"

(* _check_all_customers returned to the loop, which goes to sleep; a tick
   that was called directly belongs to no task *)
LoopAfterTick(task) ==
    IF task.pc = "tick" THEN LoopTask("sleep", task.cancel) ELSE task

(* history: no store update reached a customer that the running tick has
   listed and not checked yet *)
NotUpdated == [customer_id |-> 0, before |-> <<>>]

----------------------------------------------------------------------------
(* Actions *)

(* One call of StateManager.update_customer *)
UpdateCustomer(id, updates) ==
    /\ customers' = UpdateStore(customers, id, updates)
    /\ event' = UpdateEvent(id, UpdateStatus(customers, id, updates), updates)
    /\ acked' = IF /\ UpdateStatus(customers, id, updates) = "ok"
                   /\ Supplies(updates, "active_ticket_key")
                   /\ Supplies(updates, "last_ticket_at")
                THEN (id :> [key |-> Supplied(updates, "active_ticket_key"),
                             at |-> Supplied(updates, "last_ticket_at")]) @@ acked
                ELSE acked
    /\ LockIsFree(lock)
    /\ lock' = WithLock(lock, "caller")
    /\ UNCHANGED <<ext, stale, custOrder, interventions, now, tickPc, snapshot, idx,
                   checked, appended, ticketCalls, observed, running, tasks, stops>>

(* One call of StateManager.create_customer *)
CreateCustomer(data) ==
    /\ Len(custOrder) < Len(DemoOrder) + MaxNewCustomers
          \/ data.customer_id \in DOMAIN customers
    /\ customers' = CreateStore(customers, data)
    /\ custOrder' = CreateOrder(customers, custOrder, data)
    /\ event' = Event("create", data.customer_id, CreateStatus(customers, data), "-")
    /\ LockIsFree(lock)
    /\ lock' = WithLock(lock, "caller")
    /\ UNCHANGED <<ext, stale, interventions, now, tickPc, snapshot, idx, checked, appended,
                   ticketCalls, acked, observed, running, tasks, stops>>

(* _check_all_customers up to the for loop: list_customers() *)
BeginTick ==
    /\ tickPc = "idle"
    /\ tickPc' = "checking"
    /\ snapshot' = ListCustomers(customers, custOrder)
    /\ idx' = 1
    /\ checked' = <<>>
    /\ event' = Event("tick_start", 0, "ok", "-")
    /\ LockIsFree(lock)
    /\ lock' = WithLock(lock, "monitor")
    /\ stale' = NotUpdated
    /\ UNCHANGED <<ext, customers, custOrder, interventions, appended,
                   ticketCalls, acked, observed, running, stops>>

(* _check_all_customers called directly, not by the monitoring loop *)
TickStart ==
    /\ BeginTick
    /\ UNCHANGED <<now, tasks>>

(* One iteration of the for loop of _check_all_customers; g is what the
   gateway does if create_ticket is called *)
CheckOne(g) ==
    /\ tickPc = "checking"
    /\ idx <= Len(snapshot)
    /\ Len(appended) < MaxAppended
    /\ LET id == snapshot[idx]
           key == Len(ticketCalls) + 1
           out == CheckCustomer(customers, interventions, customers[id], now, g, key)
       IN  /\ customers' = out.store
           /\ interventions' = AppendIntervention(interventions, out.rec)
           /\ appended' = IF out.rec = NoIntervention THEN appended
                          ELSE Append(appended, out.rec)
           /\ ticketCalls' = IF out.called
                             THEN Append(ticketCalls,
                                         [customer_id |-> id, at |-> now,
                                          key |-> CreateJiraTicket(g, key)])
                             ELSE ticketCalls
           /\ idx' = NextIndex(out.raised, idx, snapshot)
           /\ checked' = Append(checked, [id |-> id, raised |-> out.raised])
           /\ event' = Event("check", id, IF out.raised THEN "raised" ELSE "ok", g)
    /\ LockIsFree(lock)
    /\ lock' = WithLock(lock, "monitor")
    /\ UNCHANGED <<ext, stale, custOrder, now, tickPc, snapshot, acked, observed, running,
                   tasks, stops>>

(* The for loop of _check_all_customers is exhausted *)
TickEnd ==
    /\ tickPc = "checking"
    /\ idx > Len(snapshot)
    /\ tickPc' = "idle"
    /\ event' = Event("tick_end", 0, "ok", "-")
    /\ tasks' = [k \in DOMAIN tasks |-> LoopAfterTick(tasks[k])]
    /\ UNCHANGED <<ext, stale, customers, custOrder, interventions, now, snapshot, idx,
                   checked, appended, ticketCalls, acked, observed, lock,
                   running, stops>>

(* Between two ticks the clock moves on by the sleep of the monitoring
   loop, or by a day *)
Advance(d) ==
    /\ tickPc = "idle"
    /\ IF d = SecondsPerDay
       THEN now \div SecondsPerDay < MaxDays
       ELSE (now % SecondsPerDay) + d <= MaxShortWaits * CheckInterval
    /\ now' = now + d
    /\ event' = Event("sleep", 0, "ok", "-")
    /\ UNCHANGED <<ext, stale, customers, custOrder, interventions, tickPc, snapshot, idx,
                   checked, appended, ticketCalls, acked, observed, lock,
                   running, tasks, stops>>

(* The event loop has nothing ready to run: no task waits for its first
   step, no cancellation waits to be delivered and no stop() waits to
   return.  Only then does the loop wait for a timer. *)
Quiet ==
    /\ \A k \in DOMAIN tasks : tasks[k].pc # "created" /\ ~tasks[k].cancel
    /\ \A k \in stops : tasks[k].pc # "done"

(* ProactiveMonitor.start *)
Start ==
    /\ Len(tasks) < MaxStarts
    /\ running' = TRUE
    /\ tasks' = IF running THEN tasks ELSE Append(tasks, LoopTask("created", FALSE))
    /\ event' = Event("start", 0, IF running THEN "already_running" ELSE "started", "-")
    /\ UNCHANGED <<ext, stale, customers, custOrder, interventions, now, tickPc, snapshot, idx,
                   checked, appended, ticketCalls, acked, observed, lock, stops>>

(* ProactiveMonitor.stop up to "await self._task": nothing when the monitor
   is not running; otherwise running is cleared, self._task is cancelled and
   the caller waits for it *)
Stop ==
    /\ running' = StopRunning(running)
    /\ tasks' = IF running /\ tasks # <<>>
                THEN [tasks EXCEPT ![Len(tasks)] = CancelTask(tasks[Len(tasks)])]
                ELSE tasks
    /\ stops' = IF running /\ tasks # <<>> THEN stops \cup {Len(tasks)} ELSE stops
    /\ event' = Event("stop", 0, IF running THEN "cancelling" ELSE "not_running", "-")
    /\ UNCHANGED <<ext, stale, customers, custOrder, interventions, now, tickPc, snapshot, idx,
                   checked, appended, ticketCalls, acked, observed, lock>>

(* "await self._task" of stop() returns: the task is done *)
StopReturns(k) ==
    /\ k \in stops
    /\ tasks[k].pc = "done"
    /\ stops' = stops \ {k}
    /\ event' = Event("stop", k, "returned", "-")
    /\ UNCHANGED <<ext, stale, customers, custOrder, interventions, now, tickPc, snapshot, idx,
                   checked, appended, ticketCalls, acked, observed, lock, running,
                   tasks>>

(* The first step of the task: "while self.running" and, if so, the call of
   _check_all_customers *)
LoopFirst(k) ==
    /\ k \in DOMAIN tasks
    /\ tasks[k].pc = "created"
    /\ ~tasks[k].cancel
    /\ IF running
       THEN /\ BeginTick
            /\ tasks' = [tasks EXCEPT ![k] = LoopTask("tick", FALSE)]
            /\ UNCHANGED now
       ELSE /\ tasks' = [tasks EXCEPT ![k] = LoopTask("done", FALSE)]
            /\ event' = Event("loop_exit", k, "ok", "-")
            /\ UNCHANGED <<ext, stale, customers, custOrder, interventions, now, tickPc,
                           snapshot, idx, checked, appended, ticketCalls, acked,
                           observed, lock, running, stops>>

(* asyncio.sleep(self.check_interval) is over: "while self.running" and, if
   so, the next call of _check_all_customers *)
LoopWake(k) ==
    /\ k \in DOMAIN tasks
    /\ tasks[k].pc = "sleep"
    /\ Quiet
    /\ now < MaxSleeps * CheckInterval
    /\ now' = now + CheckInterval
    /\ IF running
       THEN /\ BeginTick
            /\ tasks' = [tasks EXCEPT ![k] = LoopTask("tick", FALSE)]
       ELSE /\ tasks' = [tasks EXCEPT ![k] = LoopTask("done", FALSE)]
            /\ event' = Event("loop_exit", k, "ok", "-")
            /\ UNCHANGED <<ext, stale, customers, custOrder, interventions, tickPc,
                           snapshot, idx, checked, appended, ticketCalls, acked,
                           observed, lock, running, stops>>

(* The CancelledError of Task.cancel() reaches the task: a task that has not
   run yet never runs, and asyncio.sleep raises into the loop *)
Cancelled(k) ==
    /\ k \in DOMAIN tasks
    /\ tasks[k].cancel
    /\ tasks[k].pc \in {"created", "sleep"}
    /\ tasks' = [tasks EXCEPT ![k] = LoopTask(AfterCancel(tasks[k].pc), FALSE)]
    /\ event' = Event("cancelled", k, "ok", "-")
    /\ UNCHANGED <<ext, stale, customers, custOrder, interventions, now, tickPc, snapshot, idx,
                   checked, appended, ticketCalls, acked, observed, lock, running,
                   stops>>

(* A check interval passes while no task of the monitor is alive *)
Idle ==
    /\ \A k \in DOMAIN tasks : tasks[k].pc = "done"
    /\ Quiet
    /\ now < MaxSleeps * CheckInterval
    /\ now' = now + CheckInterval
    /\ event' = Event("sleep", 0, "ok", "-")
    /\ UNCHANGED <<ext, stale, customers, custOrder, interventions, tickPc, snapshot, idx,
                   checked, appended, ticketCalls, acked, observed, lock, running,
                   tasks, stops>>

(* One call of StateManager.get_customer by a caller other than the monitor *)
ReadCustomer(id) ==
    /\ LockIsFree(lock)
    /\ lock' = WithLock(lock, "caller")
    /\ observed' = [op |-> "get", customer_id |-> id, at |-> now,
                    got |-> GetCustomer(customers, id)]
    /\ event' = Event("get", id,
                      IF GetCustomer(customers, id).found THEN "ok" ELSE "not_found", "-")
    /\ UNCHANGED <<ext, stale, customers, custOrder, interventions, now, tickPc, snapshot, idx,
                   checked, appended, ticketCalls, acked, running, tasks, stops>>

(* One call of get_customer_health by a caller other than the monitor *)
GetHealth(id) ==
    /\ LockIsFree(lock)
    /\ lock' = WithLock(lock, "caller")
    /\ observed' = [op |-> "health", customer_id |-> id, at |-> now,
                    health |-> GetCustomerHealth(customers, id, now)]
    /\ event' = Event("health", id,
                      IF GetCustomer(customers, id).found THEN "ok" ELSE "not_found", "-")
    /\ UNCHANGED <<ext, stale, customers, custOrder, interventions, now, tickPc, snapshot, idx,
                   checked, appended, ticketCalls, acked, running, tasks, stops>>

----------------------------------------------------------------------------
(* OrchestratorAgent.route_request *)

(* OrchestratorAgent._init_specialists: the keys of self._specialists *)
SpecialistNames == {"onboarding", "query_resolution", "feedback"}

(* specialist.name: OnboardingAgent and FeedbackAgent are AegisAgents (an
   LlmAgent has a name); QueryResolutionAgent is a BaseAgent, which has an
   agent_id and no name, so "recipient=specialist.name" raises
   AttributeError *)
HasName(specialist) == specialist \in {"onboarding", "feedback"}

(* A query is the sequence of its words *)
Queries == { <<"401">>, <<"billing", "401">>, <<"billing">> }

Contains(query, word) == \E i \in DOMAIN query : query[i] = word

(* What self.generate(intent_prompt) returns: the text the Gemini model
   answers with (temperature 0.2), which the code does not constrain *)
Answers ==
    {"onboarding", " Onboarding\n", "query_resolution", "feedback",
     "onboarding agent"}

(* how the generate call ends: with one of the answers, or raising *)
GenerateOutcomes == Answers \cup {"raise"}

(* intent_response.strip().lower() *)
StripLower(text) == IF text = " Onboarding\n" THEN "onboarding" ELSE text

(* how specialist.handle_message ends: with an AgentResponse, with None, or
   raising an Exception *)
HandlerOutcomes == {"response", "none", "raise"}

(* AegisAgent.start and BaseAgent.start without a transport: self._running *)
StartAgent(r) == TRUE

StopAgentNot(r) == r

(* AegisAgent.stop and BaseAgent.stop without a transport: self._running *)
StopAgent(r) == FALSE

(* no route_request call has returned yet *)
NoCall == [query |-> <<>>, target |-> "-", started |-> FALSE, handler |-> "-",
           result |-> "-"]

RoutedCall(query, target, started, handler, result) ==
    [query |-> query, target |-> target, started |-> started,
     handler |-> handler, result |-> result]

(* what route_request returns after the handler ended with h:
   "response.metadata" raises AttributeError on None, and the outer
   "except Exception" turns every Exception into the error response *)
RouteResult(h) == IF h = "response" THEN "response" ELSE "error"

RouterIdle ==
    [pc |-> "idle", query |-> <<>>, target |-> "-",
     running |-> [s \in SpecialistNames |-> FALSE],
     last |-> NoCall,
     first |-> [q \in Queries |-> "-"]]

(* history: the target the first call with this query text chose *)
FirstTarget(first, query, target) ==
    IF first[query] = "-" THEN [first EXCEPT ![query] = target] ELSE first

(* route_request up to "await specialist.handle_message(message)": the
   generate call ends with outcome a; a target that is a key of
   self._specialists is started, and the message is built *)
RouteBegin(query, a) ==
    /\ router.pc = "idle"
    /\ LET target == StripLower(a)
       IN  router' =
             IF a = "raise"
             THEN [router EXCEPT
                     !.last = RoutedCall(query, "-", FALSE, "-", "error")]
             ELSE IF target \notin SpecialistNames
             THEN [router EXCEPT
                     !.last = RoutedCall(query, target, FALSE, "-", "no_specialist"),
                     !.first = FirstTarget(router.first, query, target)]
             ELSE IF ~HasName(target)
             THEN [router EXCEPT
                     !.running[target] = StopAgent(StartAgent(router.running[target])),
                     !.last = RoutedCall(query, target, TRUE, "not_called", "error"),
                     !.first = FirstTarget(router.first, query, target)]
             ELSE [router EXCEPT
                     !.pc = "handling", !.query = query, !.target = target,
                     !.running[target] = StartAgent(router.running[target]),
                     !.first = FirstTarget(router.first, query, target)]
    /\ UNCHANGED <<core, wire, track, bus, shown, manual, stale>>

(* route_request from the return of handle_message: the routing metadata,
   "finally: await specialist.stop()", and the return *)
RouteEnd(h) ==
    /\ router.pc = "handling"
    /\ router' = [router EXCEPT
                    !.pc = "idle", !.query = <<>>, !.target = "-",
                    !.running[router.target] = StopAgent(router.running[router.target]),
                    !.last = RoutedCall(router.query, router.target, TRUE, h,
                                        RouteResult(h))]
    /\ UNCHANGED <<core, wire, track, bus, shown, manual, stale>>

----------------------------------------------------------------------------
(* AgentMessage *)

(* Payload values, by their Python type *)
NoneValue == [kind |-> "none"]
StrValue(x) == [kind |-> "str", v |-> x]
BoolValue(b) == [kind |-> "bool", v |-> b]
ListValue(items) == [kind |-> "list", items |-> items]
Item(key, value) == [key |-> key, value |-> value]
DictValue(items) == [kind |-> "dict", items |-> items]

(* dataclasses._asdict_inner on a payload value: a dict and a list are
   rebuilt from the converted items, every other value is deep-copied *)
RECURSIVE AsDictInner(_)
AsDictInner(value) ==
    IF value.kind = "dict"
    THEN DictValue([i \in DOMAIN value.items |->
                      Item(value.items[i].key, AsDictInner(value.items[i].value))])
    ELSE IF value.kind = "list"
    THEN ListValue([i \in DOMAIN value.items |-> AsDictInner(value.items[i])])
    ELSE value

(* A datetime, and the text datetime.isoformat() makes of it: the
   microseconds are written only when they are not zero *)
DateTime(sec, micro) == [kind |-> "datetime", sec |-> sec, micro |-> micro]

IsoFormat(t) ==
    IF t.micro = 0 THEN [kind |-> "str", sec |-> t.sec, digits |-> <<>>]
    ELSE [kind |-> "str", sec |-> t.sec, digits |-> <<t.micro>>]

(* datetime.fromisoformat *)
FromIsoFormat(text) ==
    DateTime(text.sec, IF text.digits = <<>> THEN 0 ELSE text.digits[1])

(* isinstance(value, str) *)
IsStr(value) == value.kind = "str"

AgentMessage(sender, recipient, type, payload, id, timestamp) ==
    [sender |-> sender, recipient |-> recipient, type |-> type,
     payload |-> payload, id |-> id, timestamp |-> timestamp]

(* AgentMessage.to_dict: asdict(self) with the timestamp in ISO format *)
ToDict(m) ==
    [sender |-> m.sender, recipient |-> m.recipient, type |-> m.type,
     payload |-> AsDictInner(m.payload), id |-> m.id,
     timestamp |-> IsoFormat(m.timestamp)]

FromDictFreshId(data, uuid) ==
    AgentMessage(data.sender, data.recipient, data.type, data.payload, uuid,
                 IF IsStr(data.timestamp) THEN FromIsoFormat(data.timestamp)
                 ELSE data.timestamp)

(* AgentMessage.from_dict: the constructor is called with the items of
   data after a timestamp that is a str was parsed; uuid is what the default factory of id would return *)
FromDict(data, uuid) ==
    AgentMessage(data.sender, data.recipient, data.type, data.payload,
                 IF "id" \in DOMAIN data THEN data.id ELSE uuid,
                 IF IsStr(data.timestamp) THEN FromIsoFormat(data.timestamp)
                 ELSE data.timestamp)

(* The payloads the callers build: of run_supervisor and the tests, of the
   dashboard, and AgentResponse.to_dict() of _handle_message_wrapper *)
Payloads ==
    { DictValue(<<>>),
      DictValue(<<Item("event_type", StrValue("billing_alert"))>>),
      DictValue(<<Item("query", StrValue("How does metered billing work?")),
                  Item("issue_key", NoneValue),
                  Item("dry_run", BoolValue(TRUE))>>),
      DictValue(<<Item("text", StrValue("Task routed to growth_agent")),
                  Item("actions",
                       ListValue(<<DictValue(<<Item("type", StrValue("route"))>>)>>)),
                  Item("metadata", DictValue(<<>>))>>) }

(* uuid4 values *)
MessageIds == {"test_id_123", "uuid_1"}

FreshId == "uuid_2"

MessageTimes == {DateTime(0, 0), DateTime(1, 0), DateTime(1, 500000)}

Messages ==
    { AgentMessage(sender, recipient, type, payload, id, t) :
        sender \in {"agent_a", "hil_dashboard"},
        recipient \in {"agent_b", "supervisor"},
        type \in {"task", "response", "event"},
        payload \in Payloads, id \in MessageIds, t \in MessageTimes }

NoWire == [pc |-> "none"]

(* msg_dict = original.to_dict() *)
Serialize ==
    /\ wire.pc = "message"
    /\ wire' = [pc |-> "dict", msg |-> wire.msg, data |-> ToDict(wire.msg)]
    /\ UNCHANGED <<core, router, track, bus, shown, manual, stale>>

(* reconstructed = AgentMessage.from_dict(msg_dict) *)
Deserialize ==
    /\ wire.pc = "dict"
    /\ wire' = [pc |-> "back", msg |-> wire.msg, data |-> wire.data,
                back |-> FromDict(wire.data, FreshId)]
    /\ UNCHANGED <<core, router, track, bus, shown, manual, stale>>

----------------------------------------------------------------------------
(* Calls from other threads.  The dashboard runs each of its calls with
   asyncio.run in the thread of its session: such a call has an event loop
   of its own, asyncio.Lock does not order it with the calls of another
   thread, and the interpreter may switch threads between any two
   statements.  The steps below are whole store calls; a thread switch
   inside one is left out. *)

(* The update_customer calls of another thread during a tick: the error
   spike of demo_at_risk_customer and the growth of demo_trial_customer *)
MidTickUpdateCalls == << UpdateCalls[1], UpdateCalls[4] >>

(* StateManager.update_customer called by another thread after the running
   tick listed the customers and before it checked this one.  setattr
   writes the object that the list of the tick refers to. *)
UpdateMidTick(id, updates) ==
    /\ tickPc = "checking"
    /\ stale = NotUpdated
    /\ \E i \in idx..Len(snapshot) : snapshot[i] = id
    /\ UpdateStatus(customers, id, updates) = "ok"
    /\ customers' = UpdateStore(customers, id, updates)
    /\ stale' = [customer_id |-> id, before |-> customers[id]]
    /\ event' = UpdateEvent(id, UpdateStatus(customers, id, updates), updates)
    /\ UNCHANGED <<ext, custOrder, interventions, now, tickPc, snapshot, idx,
                   checked, appended, ticketCalls, acked, observed, lock,
                   running, tasks, stops>>

(* no second _check_all_customers call is running *)
NoManualCheck ==
    [pc |-> "idle", snapshot |-> <<>>, idx |-> 1, pending |-> NoIntervention]

(* _check_all_customers called by the "Run Monitor Check" button:
   list_customers() *)
ManualStart ==
    /\ manual.pc = "idle"
    /\ manual' = [pc |-> "detect", snapshot |-> ListCustomers(customers, custOrder),
                  idx |-> 1, pending |-> NoIntervention]
    /\ UNCHANGED <<core, router, wire, track, bus, shown, stale>>

(* One iteration of its for loop up to the return of _detect_issue: the
   record, if any, is held by the local variable "intervention" *)
ManualDetect(g) ==
    /\ manual.pc = "detect"
    /\ manual.idx <= Len(manual.snapshot)
    /\ Len(appended) < MaxAppended
    /\ LET id == manual.snapshot[manual.idx]
           key == Len(ticketCalls) + 1
           out == CheckCustomer(customers, interventions, customers[id], now, g, key)
       IN  /\ customers' = out.store
           /\ ticketCalls' = IF out.called
                             THEN Append(ticketCalls,
                                         [customer_id |-> id, at |-> now,
                                          key |-> CreateJiraTicket(g, key)])
                             ELSE ticketCalls
           /\ manual' = IF out.rec = NoIntervention
                        THEN [manual EXCEPT
                                !.idx = NextIndex(out.raised, manual.idx, manual.snapshot)]
                        ELSE [manual EXCEPT !.pc = "append", !.pending = out.rec]
    /\ UNCHANGED <<custOrder, interventions, now, tickPc, snapshot, idx, checked,
                   appended, acked, event, observed, lock, running, tasks, stops,
                   router, wire, track, bus, shown, stale>>

(* The rest of the iteration: self.interventions.append(intervention) and
   the cut to the last 50 *)
ManualAppend ==
    /\ manual.pc = "append"
    /\ interventions' = AppendIntervention(interventions, manual.pending)
    /\ appended' = Append(appended, manual.pending)
    /\ manual' = [manual EXCEPT
                    !.pc = "detect", !.pending = NoIntervention,
                    !.idx = NextIndex(FALSE, manual.idx, manual.snapshot)]
    /\ UNCHANGED <<customers, custOrder, now, tickPc, snapshot, idx, checked,
                   ticketCalls, acked, event, observed, lock, running, tasks,
                   stops, router, wire, track, bus, shown, stale>>

(* Its for loop is exhausted *)
ManualEnd ==
    /\ manual.pc = "detect"
    /\ manual.idx > Len(manual.snapshot)
    /\ manual' = NoManualCheck
    /\ UNCHANGED <<core, router, wire, track, bus, shown, stale>>

----------------------------------------------------------------------------
(* track_api_activity *)

(* HTTP status codes of the tracked calls *)
StatusCodes == {200, 401}

FirstErrorCode == 400

(* The updates dict that track_api_activity builds from the profile it read
   (last_api_call is no field of the profiles modelled here; the new
   error_rate is cut to whole hundredths) *)
TrackUpdates(seen, status_code) ==
    << <<"total_api_calls", seen.total_api_calls + 1>> >>
    \o (IF seen.total_api_calls = 0
        THEN << <<"onboarding_stage", "first_api_call">>,
                <<"integration_status", "in_progress">> >>
        ELSE << >>)
    \o (IF status_code >= FirstErrorCode
        THEN << <<"error_rate",
                  (seen.error_rate * seen.total_api_calls + 100)
                      \div (seen.total_api_calls + 1)>> >>
        ELSE << >>)

NoTrackCalls == [calls |-> <<>>]

(* track_api_activity up to the update_customer call: get_customer, then
   the updates computed from the profile it returned; a customer that is
   not found ends the call *)
TrackRead(id, status_code) ==
    /\ Len(track.calls) < MaxTrackCalls
    /\ LET got == GetCustomer(customers, id)
       IN  track' = [track EXCEPT !.calls =
                       Append(@, IF got.found
                                 THEN [pc |-> "read", customer_id |-> id,
                                       updates |-> TrackUpdates(got.customer, status_code)]
                                 ELSE [pc |-> "not_found", customer_id |-> id,
                                       updates |-> << >>])]
    /\ UNCHANGED <<core, router, wire, bus, shown, manual, stale>>

(* The rest of the call: update_customer(customer_id, updates) and the
   return *)
TrackWrite(k) ==
    /\ k \in DOMAIN track.calls
    /\ track.calls[k].pc = "read"
    /\ customers' = UpdateStore(customers, track.calls[k].customer_id,
                                track.calls[k].updates)
    /\ track' = [track EXCEPT !.calls[k].pc = "done"]
    /\ UNCHANGED <<custOrder, interventions, now, tickPc, snapshot, idx, checked,
                   appended, ticketCalls, acked, event, observed, lock, running,
                   tasks, stops, router, wire, bus, shown, manual, stale>>

----------------------------------------------------------------------------
(* SupervisorAgent and the specialists over an InMemoryTransport *)

(* The agents that run_supervisor starts: BaseAgent.start subscribes
   _handle_message_wrapper under the agent_id *)
Subscribed ==
    {"supervisor", "onboarding_agent", "integration_agent", "proactive_agent",
     "growth_agent"}

(* SupervisorAgent.specialist_routing.get(intent, "unknown") *)
SpecialistRouting(intent) ==
    IF intent \in {"onboarding", "migration"} THEN "onboarding_agent"
    ELSE IF intent \in {"integration", "finops"} THEN "integration_agent"
    ELSE IF intent \in {"billing", "support", "platform"} THEN "proactive_agent"
    ELSE IF intent \in {"churn", "upsell", "retention"} THEN "growth_agent"
    ELSE "unknown"

(* payload.get(key, "unknown") *)
PayloadGet(payload, key) ==
    IF key \in DOMAIN payload THEN payload[key] ELSE "unknown"

(* A message of the queue: the fields the transport and the handlers read *)
QueuedMessage(sender, recipient, type, payload) ==
    [sender |-> sender, recipient |-> recipient, type |-> type, payload |-> payload]

(* AgentResponse.to_dict(): it has no "intent" and no "task_type" *)
ResponsePayload(text) == [text |-> text]

(* The task payloads that run_supervisor sends, and one whose intent the
   supervisor cannot route *)
TaskPayloads ==
    { [intent |-> "onboarding", task_type |-> "documentation"],
      [intent |-> "churn", task_type |-> "churn_analysis"],
      [intent |-> "weather", task_type |-> "forecast"] }

(* SupervisorAgent.handle_message: the message it forwards, if any, and the
   text of the AgentResponse it returns *)
SupervisorHandle(message) ==
    IF message.type = "task"
    THEN LET specialist == SpecialistRouting(PayloadGet(message.payload, "intent"))
         IN  IF specialist = "unknown"
             THEN [sent |-> <<>>, text |-> "Unable to route intent"]
             ELSE [sent |-> << QueuedMessage("supervisor", specialist, "task",
                                             message.payload) >>,
                   text |-> "Task routed"]
    ELSE IF message.type = "event"
    THEN [sent |-> <<>>, text |-> "Event acknowledged"]
    ELSE [sent |-> <<>>, text |-> "Unknown message type"]

(* handle_message of OnboardingAgent, IntegrationAgent, ProactiveAgent and
   GrowthAgent: every branch returns an AgentResponse, whatever the type of
   the message *)
SpecialistHandle(agent, message) ==
    [sent |-> <<>>,
     text |-> IF PayloadGet(message.payload, "task_type") = "unknown"
              THEN "Unknown task type" ELSE "Task done"]

(* BaseAgent._handle_message_wrapper after handle_message returned: a
   response that is not None is sent to the sender of the message *)
Reply(agent, message, text) ==
    << QueuedMessage(agent, message.sender, "response", ResponsePayload(text)) >>

(* The messages that the handler of the recipient puts on the queue, in
   order; a message for a recipient without handler is dropped *)
HandlerSends(message) ==
    IF message.recipient \notin Subscribed THEN <<>>
    ELSE LET handled == IF message.recipient = "supervisor"
                        THEN SupervisorHandle(message)
                        ELSE SpecialistHandle(message.recipient, message)
         IN  handled.sent \o Reply(message.recipient, message, handled.text)

EmptyBus == [queue |-> <<>>, routed |-> 0]

(* transport.send of a task for the supervisor, as run_supervisor does *)
SendTask(payload) ==
    /\ bus.routed < MaxTasks
    /\ bus' = [queue |-> Append(bus.queue,
                                QueuedMessage("cli_runner", "supervisor", "task",
                                              payload)),
               routed |-> bus.routed + 1]
    /\ UNCHANGED <<core, router, wire, track, shown, manual, stale>>

(* One round of the while loop of InMemoryTransport._process_messages: the
   oldest message leaves the queue and the handler of its recipient runs
   (message_queue.put never waits: the queue has no maxsize) *)
Deliver ==
    /\ bus.queue # <<>>
    /\ bus' = [bus EXCEPT !.queue = Tail(bus.queue) \o HandlerSends(Head(bus.queue))]
    /\ UNCHANGED <<core, router, wire, track, shown, manual, stale>>

----------------------------------------------------------------------------
(* ProactiveMonitor.get_recent_interventions *)

Max(a, b) == IF a > b THEN a ELSE b

(* list[start:] for a Python index start: a negative start counts from the
   end of the list, and -0 is 0 *)
SliceFrom(list, start) ==
    LET first == IF start < 0 THEN Max(Len(list) + start, 0) ELSE Min(start, Len(list))
    IN  SubSeq(list, first + 1, Len(list))

(* reversed(list) *)
Reversed(list) == [i \in 1..Len(list) |-> list[Len(list) + 1 - i]]

(* get_recent_interventions: list(reversed(self.interventions[-limit:])) *)
GetRecentInterventions(log, limit) == Reversed(SliceFrom(log, 0 - limit))

(* The limits of the callers: 3 of the dashboard, 10 of the demo and the
   default, and 0 and 1 *)
Limits == {0, 1, 3, 10}

NothingShown == [limit |-> 0, records |-> <<>>, of |-> <<>>]

(* One call of get_recent_interventions; "of" is the log it read *)
GetRecent(limit) ==
    /\ shown' = [limit |-> limit,
                 records |-> GetRecentInterventions(interventions, limit),
                 of |-> interventions]
    /\ UNCHANGED <<core, router, wire, track, bus, manual, stale>>

----------------------------------------------------------------------------
(* Specifications *)

(* Nothing but the store and the monitor has run yet *)
InitExt ==
    /\ router = RouterIdle
    /\ wire = NoWire
    /\ track = NoTrackCalls
    /\ bus = EmptyBus
    /\ shown = NothingShown
    /\ manual = NoManualCheck
    /\ stale = NotUpdated

(* StateManager.__init__ and ProactiveMonitor.__init__ *)
InitCore ==
    /\ customers = DemoCustomers
    /\ custOrder = DemoOrder
    /\ interventions = <<>>
    /\ now = 0
    /\ tickPc = "idle"
    /\ snapshot = <<>>
    /\ idx = 1
    /\ checked = <<>>
    /\ appended = <<>>
    /\ ticketCalls = <<>>
    /\ acked = <<>>
    /\ event = Event("init", 0, "ok", "-")
    /\ observed = NothingObserved
    /\ lock = "free"
    /\ running = FALSE
    /\ tasks = <<>>
    /\ stops = {}

Init == InitCore /\ InitExt

(* The store calls of the other tasks run between two ticks: on the event
   loop of the monitor a tick reaches no suspension point at which another
   task runs (the lock of the store is free whenever a task asks for it,
   and no check gets as far as the create_ticket call). *)
Next ==
    \/ /\ tickPc = "idle"
       /\ \E i \in DOMAIN UpdateCalls :
              UpdateCustomer(UpdateCalls[i].id, UpdateCalls[i].updates)
    \/ /\ tickPc = "idle"
       /\ \E i \in DOMAIN CreateInputs(custOrder) :
              CreateCustomer(CreateInputs(custOrder)[i])
    \/ TickStart
    \/ \E g \in GatewayResults : CheckOne(g)
    \/ TickEnd
    \/ \E d \in {CheckInterval, SecondsPerDay} : Advance(d)

Spec == Init /\ [][Next]_vars

(* The store after LogCustomers more signups: the demo customers and
   LogCustomers stalled signups, created in the order of their ids *)
BulkIds == FirstNewId .. (FirstNewId + LogCustomers - 1)

InitLog ==
    /\ customers = [id \in (DOMAIN DemoCustomers) \cup BulkIds |->
                      IF id \in BulkIds THEN StalledSignup(id) ELSE DemoCustomers[id]]
    /\ custOrder = [i \in 1..(Len(DemoOrder) + LogCustomers) |->
                      IF i <= Len(DemoOrder) THEN DemoOrder[i] ELSE i]
    /\ interventions = <<>>
    /\ now = 0
    /\ tickPc = "idle"
    /\ snapshot = <<>>
    /\ idx = 1
    /\ checked = <<>>
    /\ appended = <<>>
    /\ ticketCalls = <<>>
    /\ acked = <<>>
    /\ event = Event("init", 0, "ok", "-")
    /\ observed = NothingObserved
    /\ lock = "free"
    /\ running = FALSE
    /\ tasks = <<>>
    /\ stops = {}
    /\ InitExt

NextLog ==
    \/ TickStart
    \/ \E g \in GatewayResults : CheckOne(g)
    \/ TickEnd
    \/ \E d \in {CheckInterval, SecondsPerDay} : Advance(d)

SpecLog == InitLog /\ [][NextLog]_vars

(* The store after update_customer calls gave demo_at_risk_customer any of
   these field values (update_customer writes every field of the profile) *)
ProfileInputs ==
    {CustomerProfile(DemoAtRisk, 0 - h * SecondsPerHour, tier, stage, calls, integ,
                     err, trend) :
        h \in {1, 24, 26, 49},
        tier \in {"starter", "pro"},
        stage \in {"api_keys_generated", "production_ready"},
        calls \in {0, 10, 11, 1001},
        integ \in {"not_started", "live"},
        err \in {0, 5, 10, 11, 15, 16, 20},
        trend \in {"stable", "declining", "increasing"}}

InitRules ==
    /\ \E profile \in ProfileInputs :
           customers = [DemoCustomers EXCEPT ![DemoAtRisk] = profile]
    /\ custOrder = DemoOrder
    /\ interventions = <<>>
    /\ now = 0
    /\ tickPc = "idle"
    /\ snapshot = <<>>
    /\ idx = 1
    /\ checked = <<>>
    /\ appended = <<>>
    /\ ticketCalls = <<>>
    /\ acked = <<>>
    /\ event = Event("init", 0, "ok", "-")
    /\ observed = NothingObserved
    /\ lock = "free"
    /\ running = FALSE
    /\ tasks = <<>>
    /\ stops = {}
    /\ InitExt

NextRules ==
    \/ TickStart
    \/ \E g \in GatewayResults : CheckOne(g)
    \/ TickEnd
    \/ /\ tickPc = "idle"
       /\ \E id \in {DemoAtRisk, MissingId} : GetHealth(id)

SpecRules == InitRules /\ [][NextRules]_vars

(* The store under the calls of its callers alone *)
NextStore ==
    \/ \E i \in DOMAIN StoreUpdateCalls :
           UpdateCustomer(StoreUpdateCalls[i].id, StoreUpdateCalls[i].updates)
    \/ \E i \in DOMAIN CreateInputs(custOrder) :
           CreateCustomer(CreateInputs(custOrder)[i])
    \/ \E id \in (DOMAIN DemoCustomers) \cup {MissingId} : ReadCustomer(id)

SpecStore == Init /\ [][NextStore]_vars

(* The store under update_customer calls that succeed *)
NextFrame ==
    \E i \in DOMAIN FrameUpdateCalls :
        UpdateCustomer(FrameUpdateCalls[i].id, FrameUpdateCalls[i].updates)

SpecFrame == Init /\ [][NextFrame]_vars

(* The update_customer calls of other tasks while the loop runs: the error
   spike of demo_at_risk_customer and the growth of demo_trial_customer *)
LoopUpdateCalls == << UpdateCalls[1], UpdateCalls[4] >>

(* The monitoring loop under start() and stop(), with the store calls of
   other tasks.  All tasks run on one event loop: a task runs until it
   awaits something that is not ready, and a tick awaits nothing of the
   kind, so start(), stop() and the store calls run between two ticks. *)
NextLoop ==
    \/ tickPc = "idle" /\ Start
    \/ tickPc = "idle" /\ Stop
    \/ \E k \in DOMAIN tasks : StopReturns(k)
    \/ tickPc = "idle" /\ \E k \in DOMAIN tasks : LoopFirst(k)
    \/ tickPc = "idle" /\ \E k \in DOMAIN tasks : LoopWake(k)
    \/ \E k \in DOMAIN tasks : Cancelled(k)
    \/ \E g \in GatewayResults : CheckOne(g)
    \/ TickEnd
    \/ Idle
    \/ /\ tickPc = "idle"
       /\ \E i \in DOMAIN LoopUpdateCalls :
              UpdateCustomer(LoopUpdateCalls[i].id, LoopUpdateCalls[i].updates)

(* The event loop runs every task that is ready: the steps of a tick, the
   delivery of a cancellation and the return of stop() are not put off
   forever *)
LoopFairness ==
    /\ WF_vars(\E g \in GatewayResults : CheckOne(g))
    /\ WF_vars(TickEnd)
    /\ WF_vars(\E k \in DOMAIN tasks : Cancelled(k))
    /\ WF_vars(\E k \in DOMAIN tasks : StopReturns(k))

SpecLoop == Init /\ [][NextLoop]_vars /\ LoopFairness

(* The route_request calls of one orchestrator, one at a time *)
NextRouter ==
    \/ \E query \in Queries, a \in GenerateOutcomes : RouteBegin(query, a)
    \/ \E h \in HandlerOutcomes : RouteEnd(h)

SpecRouter == Init /\ [][NextRouter]_vars

(* A message as a caller built it *)
InitWire ==
    /\ InitCore
    /\ router = RouterIdle
    /\ \E m \in Messages : wire = [pc |-> "message", msg |-> m]
    /\ track = NoTrackCalls
    /\ bus = EmptyBus
    /\ shown = NothingShown
    /\ manual = NoManualCheck
    /\ stale = NotUpdated

NextWire ==
    \/ Serialize
    \/ Deserialize

SpecWire == InitWire /\ [][NextWire]_vars

(* A tick, with a manual check and store updates made by other threads *)
NextThreads ==
    \/ TickStart
    \/ \E g \in GatewayResults : CheckOne(g)
    \/ TickEnd
    \/ manual.pc = "idle" /\ Advance(SecondsPerDay)
    \/ \E i \in DOMAIN MidTickUpdateCalls :
           UpdateMidTick(MidTickUpdateCalls[i].id, MidTickUpdateCalls[i].updates)
    \/ ManualStart
    \/ \E g \in GatewayResults : ManualDetect(g)
    \/ ManualAppend
    \/ ManualEnd

SpecThreads == Init /\ [][NextThreads]_vars

(* track_api_activity calls made by several threads *)
NextTrack ==
    \/ \E id \in {DemoNew, DemoActive, MissingId}, status_code \in StatusCodes :
           TrackRead(id, status_code)
    \/ \E k \in DOMAIN track.calls : TrackWrite(k)

SpecTrack == Init /\ [][NextTrack]_vars

(* Up to MaxTasks tasks sent to the supervisor over a running transport.
   The processor task of the transport delivers as long as the queue holds
   a message. *)
NextBus ==
    \/ \E payload \in TaskPayloads : SendTask(payload)
    \/ Deliver

BusFairness == WF_vars(Deliver)

SpecBus == Init /\ [][NextBus]_vars /\ BusFairness

(* Ticks over the store of more than 50 stalled signups, up to a call of
   get_recent_interventions *)
NextRecent ==
    \/ shown = NothingShown /\ TickStart
    \/ shown = NothingShown /\ \E g \in GatewayResults : CheckOne(g)
    \/ shown = NothingShown /\ TickEnd
    \/ shown = NothingShown /\ \E d \in {CheckInterval, SecondsPerDay} : Advance(d)
    \/ \E limit \in Limits : GetRecent(limit)

SpecRecent == InitLog /\ [][NextRecent]_vars

----------------------------------------------------------------------------
(* The rules of the detector as the specification words them (section 4.3),
   for the statements below. *)

StalledRule(customer, t) ==
    /\ customer.onboarding_stage = "api_keys_generated"
    /\ customer.total_api_calls = 0
    /\ t - customer.created_at > 24 * SecondsPerHour

ErrorSpikeRule(customer) ==
    customer.error_rate > 10 /\ customer.total_api_calls > 10

ChurnRule(customer) ==
    /\ customer.usage_trend = "declining"
    /\ customer.subscription_tier \in {"pro", "enterprise"}

(* A record of this type for this customer, younger than 24 hours, is in log *)
Fresh(log, id, type, t) ==
    {i \in 1..Len(log) : /\ log[i].customer_id = id
                         /\ log[i].type = type
                         /\ t - log[i].created_at < 24 * SecondsPerHour}

(* The type of the record of the rule that calls for escalation for this
   customer, or "none": the error spike above 0.15, or churn risk when no
   error spike is detected; in both cases the record is not suppressed. *)
EscalatingRule(customer, log, t) ==
    IF StalledRule(customer, t) THEN "none"
    ELSE IF ErrorSpikeRule(customer)
    THEN IF /\ customer.error_rate > 15
            /\ Fresh(log, customer.customer_id, "error_debugging", t) = {}
         THEN "error_debugging" ELSE "none"
    ELSE IF /\ ChurnRule(customer)
            /\ Fresh(log, customer.customer_id, "retention_outreach", t) = {}
    THEN "retention_outreach" ELSE "none"

(* A caller was told that this customer's profile holds a ticket key that
   is younger than 24 hours *)
HasFreshTicket(id, t) ==
    /\ id \in DOMAIN acked
    /\ acked[id].key # NoTicket
    /\ t - acked[id].at < 24 * SecondsPerHour

(* The create_ticket calls made for this customer in the last 24 hours *)
TicketsInWindow(calls, id, t) ==
    {k \in 1..Len(calls) : /\ calls[k].customer_id = id
                           /\ t - calls[k].at < 24 * SecondsPerHour}

(* This step is the check of one customer by the running tick *)
IsCheckStep ==
    /\ tickPc = "checking"
    /\ idx <= Len(snapshot)
    /\ event'.op = "check"
    /\ Len(checked') = Len(checked) + 1

----------------------------------------------------------------------------
(* C1: for a customer that satisfies the stalled-onboarding rule, the first
   tick appends exactly one onboarding_check_in record and no later tick
   appends another while that record is less than 24 hours old: right after
   each check of such a customer the log holds exactly one
   onboarding_check_in record for it that is younger than 24 hours. *)
C1_StalledCustomerHasOneFreshCheckIn ==
    (event.op = "check" /\ StalledRule(customers[event.customer_id], now))
        => Cardinality(Fresh(interventions, event.customer_id,
                             "onboarding_check_in", now)) = 1

(* C2: two records with the same (customer_id, type) are never emitted less
   than 24 hours apart, whatever was appended in between. *)
C2_NoRepeatWithinWindow ==
    \A i, j \in 1..Len(appended) :
        (/\ i < j
         /\ appended[i].customer_id = appended[j].customer_id
         /\ appended[i].type = appended[j].type)
            => appended[j].created_at - appended[i].created_at >= 24 * SecondsPerHour

(* C3: the log holds at most 50 records, in insertion order, and they are
   the most recently appended ones; after 55 appends it holds exactly 50
   and the 5 oldest are gone. *)
C3_LogIsTheLastFifty ==
    /\ Len(interventions) <= 50
    /\ Len(interventions) = IF Len(appended) < 50 THEN Len(appended) ELSE 50
    /\ \A i \in 1..Len(interventions) :
           interventions[i] = appended[Len(appended) - Len(interventions) + i]

C3_FiftyFiveAppended ==
    /\ Len(appended) = 55
    /\ Len(interventions) = 50
    /\ interventions[1] = appended[6]
    /\ \A k \in 1..5 : \A i \in 1..Len(interventions) : interventions[i] # appended[k]

(* C4: when the error-spike rule calls for escalation (error_rate > 0.15,
   total_api_calls > 10) for a customer whose active_ticket_key is set and
   whose last_ticket_at is less than 24 hours old, the check makes no
   create_ticket call and appends an error_debugging record that carries
   the existing key. *)
C4_ExistingTicketIsReused ==
    [][IsCheckStep =>
         LET id == snapshot[idx]
         IN  (/\ EscalatingRule(customers[id], interventions, now) = "error_debugging"
              /\ HasFreshTicket(id, now))
                 => /\ ticketCalls' = ticketCalls
                    /\ appended' = Append(appended,
                                           Intervention("error_debugging", id, now,
                                                        acked[id].key))]_vars

(* C5: when an escalation creates a new ticket through the gateway (a rule
   calls for escalation, the customer has no ticket younger than 24 hours
   and the gateway returns a key), then after that customer's check the
   stored profile has active_ticket_key equal to the new key and
   last_ticket_at equal to the creation time. *)
C5_NewTicketIsStored ==
    [][IsCheckStep =>
         LET id == snapshot[idx]
         IN  (/\ EscalatingRule(customers[id], interventions, now) # "none"
              /\ ~HasFreshTicket(id, now)
              /\ event'.gateway = "ok")
                 => /\ HasAttr(customers'[id], "active_ticket_key")
                    /\ HasAttr(customers'[id], "last_ticket_at")
                    /\ customers'[id].active_ticket_key = Len(ticketCalls) + 1
                    /\ customers'[id].last_ticket_at = now]_vars

(* C6: create_ticket is called for one customer at most once in any 24-hour
   window, a ticket created less than 24 hours ago being reused, also when
   first the error-spike rule and later the churn-risk rule call for
   escalation: after a check in which a rule called for escalation (the
   gateway working, no ticket linkage supplied from outside) the tickets
   created for the customer in the last 24 hours number exactly one, the one
   created now or the one an earlier escalation created. *)
C6_OneTicketPerWindow ==
    [][IsCheckStep =>
         LET id == snapshot[idx]
         IN  /\ Cardinality(TicketsInWindow(ticketCalls', id, now)) <= 1
             /\ (/\ EscalatingRule(customers[id], interventions, now) # "none"
                  /\ id \notin DOMAIN acked
                  /\ event'.gateway = "ok")
                    => Cardinality(TicketsInWindow(ticketCalls', id, now)) = 1]_vars

(* C7: when create_ticket fails (raises, or returns no key) during an
   escalation, the tick still appends the record of the rule that fired,
   with an empty ticket reference, and goes on to the next customer. *)
C7_FailedEscalationIsRecorded ==
    [][IsCheckStep =>
         LET id == snapshot[idx]
             type == EscalatingRule(customers[id], interventions, now)
         IN  (/\ type # "none"
              /\ ~HasFreshTicket(id, now)
              /\ event'.gateway \in {"raises", "no_key"})
                 => /\ appended' = Append(appended, Intervention(type, id, now, NoTicket))
                    /\ idx' = idx + 1
                    /\ tickPc' = "checking"]_vars

(* C8: in one tick every customer of the list returned by list_customers is
   checked exactly once, in order, also after the check of an earlier
   customer raised; a check that raises does not end the tick and changes no
   profile and no record. *)
C8_EveryCustomerCheckedOnce ==
    /\ [](/\ Len(checked) <= Len(snapshot)
          /\ \A i \in 1..Len(checked) : checked[i].id = snapshot[i]
          /\ event.op = "tick_end" => Len(checked) = Len(snapshot))
    /\ [][(IsCheckStep /\ event'.status = "raised")
            => /\ customers' = customers
               /\ interventions' = interventions
               /\ tickPc' = "checking"]_vars

C8_CheckedAfterARaise ==
    /\ event.op = "tick_end"
    /\ \E i, j \in 1..Len(checked) :
           /\ i < j
           /\ checked[i].raised
           /\ ~checked[j].raised
           /\ Fresh(interventions, checked[j].id, "onboarding_check_in", now) # {}

(* C9: update_customer on a customer_id that is not in the store fails with
   a not-found error and leaves the whole store unchanged: no profile is
   created and no field of any profile is written. *)
C9_UpdateOfUnknownIdChangesNothing ==
    /\ [](event.op = "update"
            => (event.status = "not_found" <=> event.customer_id \notin DOMAIN customers))
    /\ [][(event'.op = "update" /\ event'.customer_id \notin DOMAIN customers)
            => /\ event'.status = "not_found"
               /\ customers' = customers
               /\ custOrder' = custOrder]_vars

C9_UnknownIdUpdated ==
    /\ event.op = "update"
    /\ event.status = "not_found"
    /\ event.customer_id = MissingId
    /\ Len(custOrder) > Len(DemoOrder)

(* C10: create_customer with a customer_id that is already stored fails and
   leaves the store unchanged, so customer_id stays unique across the store
   after any sequence of create calls. *)
C10_DuplicateCreateChangesNothing ==
    /\ [](/\ Cardinality(DOMAIN customers) = Len(custOrder)
          /\ \A i \in 1..Len(custOrder) : custOrder[i] \in DOMAIN customers
          /\ \A a, b \in DOMAIN customers :
                 customers[a].customer_id = customers[b].customer_id => a = b)
    /\ [][(event'.op = "create" /\ event'.customer_id \in DOMAIN customers)
            => /\ event'.status = "already_exists"
               /\ customers' = customers
               /\ custOrder' = custOrder]_vars

C10_DuplicateCreated ==
    /\ event.op = "create"
    /\ event.status = "already_exists"
    /\ customers[event.customer_id] # CreateInputs(custOrder)[2]

----------------------------------------------------------------------------
UpsellRule(customer) ==
    /\ customer.usage_trend = "increasing"
    /\ customer.total_api_calls > 1000
    /\ customer.subscription_tier \in {"trial", "starter"}

(* The types of the records that the rules call for at a check of this
   customer: the rule is satisfied and its record is not suppressed *)
DueTypes(customer, log, t) ==
    {type \in {"onboarding_check_in", "error_debugging", "retention_outreach",
               "upsell_suggestion"} :
        /\ Fresh(log, customer.customer_id, type, t) = {}
        /\ \/ type = "onboarding_check_in" /\ StalledRule(customer, t)
           \/ type = "error_debugging" /\ ErrorSpikeRule(customer)
           \/ type = "retention_outreach" /\ ChurnRule(customer)
           \/ type = "upsell_suggestion" /\ UpsellRule(customer)}

(* The records this step appended *)
NewRecords == {appended'[i] : i \in (Len(appended) + 1)..Len(appended')}

(* C13: at the check of a customer that satisfies several rules at once,
   one record is appended for each satisfied rule that is not suppressed. *)
C13_OneRecordForEachSatisfiedRule ==
    [][IsCheckStep =>
         LET id == snapshot[idx]
             due == DueTypes(customers[id], interventions, now)
         IN  Cardinality(due) >= 2
                 => /\ Len(appended') = Len(appended) + Cardinality(due)
                    /\ {rec.type : rec \in NewRecords} = due
                    /\ \A rec \in NewRecords : rec.customer_id = id]_vars

C13_StalledAndChurnGetOneRecord ==
    /\ event.op = "check"
    /\ event.status = "ok"
    /\ StalledRule(customers[event.customer_id], now)
    /\ ChurnRule(customers[event.customer_id])
    /\ \E i \in 1..Len(appended) :
           /\ appended[i] = Intervention("onboarding_check_in", event.customer_id,
                                         now, NoTicket)
           /\ \A j \in 1..Len(appended) :
                  appended[j].customer_id = event.customer_id => j = i

(* C14: the error-spike rule (error_rate > 0.10, total_api_calls > 10, not
   suppressed) emits an error_debugging record; for an error_rate of at most
   0.15 the check makes no create_ticket call and the record carries no
   ticket reference. *)
C14_ErrorSpikeBelowEscalationHasNoTicket ==
    [][IsCheckStep =>
         LET id == snapshot[idx]
             customer == customers[id]
         IN  (/\ ErrorSpikeRule(customer)
              /\ Fresh(interventions, id, "error_debugging", now) = {})
                 => /\ \E rec \in NewRecords :
                           /\ rec.type = "error_debugging"
                           /\ rec.customer_id = id
                           /\ customer.error_rate <= 15 => rec.jira_ticket = NoTicket
                    /\ customer.error_rate <= 15 => ticketCalls' = ticketCalls]_vars

(* C15: get_customer_health returns engagement_score = min(100, 50 + 20 for
   total_api_calls > 0 + 20 for integration_status "live" + 10 for
   error_rate < 0.05 + 10 for an increasing usage_trend), a value in
   [0, 100]. *)
C15_EngagementScoreIsTheClampedSum ==
    (observed.op = "health" /\ observed.health.found)
        => LET customer == customers[observed.customer_id]
               sum == 50 + (IF customer.total_api_calls > 0 THEN 20 ELSE 0)
                         + (IF customer.integration_status = "live" THEN 20 ELSE 0)
                         + (IF customer.error_rate < 5 THEN 10 ELSE 0)
                         + (IF customer.usage_trend = "increasing" THEN 10 ELSE 0)
           IN  /\ observed.health.engagement_score = (IF sum > 100 THEN 100 ELSE sum)
               /\ observed.health.engagement_score \in 0..100

C15_ScoreOfAllFourTermsIsClamped ==
    /\ observed.op = "health"
    /\ observed.health.found
    /\ customers[observed.customer_id].total_api_calls > 0
    /\ customers[observed.customer_id].integration_status = "live"
    /\ customers[observed.customer_id].error_rate < 5
    /\ customers[observed.customer_id].usage_trend = "increasing"
    /\ observed.health.engagement_score = 100

(* C16: the health status is at_risk whenever error_rate > 0.10 or
   usage_trend is declining, whatever the stage, the number of calls and the
   age of the account. *)
C16_AtRiskTakesPrecedence ==
    (observed.op = "health" /\ observed.health.found)
        => LET customer == customers[observed.customer_id]
           IN  (customer.error_rate > 10 \/ customer.usage_trend = "declining")
                   => observed.health.health_status = "at_risk"

----------------------------------------------------------------------------
(* Some enum-typed field of updates has a value outside its value set *)
HasUnknownEnumValue(updates) ==
    \E i \in 1..Len(updates) :
        \/ /\ updates[i][1] = "onboarding_stage"
           /\ updates[i][2] \notin {"new", "trial_created", "api_keys_generated",
                                     "first_api_call", "integration_validated",
                                     "production_ready"}
        \/ /\ updates[i][1] = "subscription_tier"
           /\ updates[i][2] \notin {"none", "trial", "starter", "pro", "enterprise"}

(* C11: update_customer that supplies an enum-typed field with a value
   outside the known value set fails with a validation error and applies
   none of the supplied fields, whatever the other fields and their order. *)
C11_InvalidEnumUpdateAppliesNothing ==
    [][(/\ event'.op = "update"
        /\ event'.customer_id \in DOMAIN customers
        /\ HasUnknownEnumValue(event'.updates))
           => /\ event'.status = "invalid"
              /\ customers' = customers]_vars

C11_EarlierFieldIsWritten ==
    /\ event.op = "update"
    /\ event.status = "invalid"
    /\ event.updates = << <<"error_rate", 20>>, <<"subscription_tier", "platinum">> >>
    /\ customers[event.customer_id].error_rate = 20
    /\ customers[event.customer_id].subscription_tier = "starter"

(* C12: in every reachable state every stored profile has error_rate in
   [0, 1] (0..100 in hundredths). *)
C12_ErrorRateWithinRange ==
    \A id \in DOMAIN customers :
        customers[id].error_rate >= 0 /\ customers[id].error_rate <= 100

C12_OutOfRangeRateStored ==
    /\ event.op = "update"
    /\ event.status = "ok"
    /\ event.updates = << <<"error_rate", 150>> >>
    /\ customers[event.customer_id].error_rate = 150

----------------------------------------------------------------------------
(* The profile with every supplied field of the update written *)
RECURSIVE WholeUpdate(_, _)
WholeUpdate(customer, updates) ==
    IF updates = <<>> THEN customer
    ELSE WholeUpdate(IF Head(updates)[1] \in DOMAIN customer
                     THEN [customer EXCEPT ![Head(updates)[1]] = Head(updates)[2]]
                     ELSE customer,
                     Tail(updates))

(* C19: at most one store operation is inside its critical section at any
   time, so update_customer calls on one customer take effect as whole
   updates, one after another, and no reader observes a profile with only
   part of one update applied: no operation is inside the critical section
   between two steps, an update leaves the profile either as it was or with
   the whole update applied, and get_customer returns the stored profile. *)
C19_UpdatesTakeEffectWhole ==
    /\ [](lock = "free")
    /\ [][(event'.op = "update" /\ event'.customer_id \in DOMAIN customers)
            => /\ customers'[event'.customer_id]
                      \in {customers[event'.customer_id],
                           WholeUpdate(customers[event'.customer_id], event'.updates)}
               /\ \A id \in DOMAIN customers :
                      id # event'.customer_id => customers'[id] = customers[id]]_vars
    /\ [][(event'.op = "get" /\ event'.status = "ok")
            => /\ observed'.got.customer = customers[event'.customer_id]
               /\ customers' = customers]_vars

C19_ReaderSeesPartOfAnUpdate ==
    /\ event.op = "get"
    /\ observed.op = "get"
    /\ observed.got.found
    /\ observed.got.customer.total_api_calls = 5
    /\ observed.got.customer.onboarding_stage = "api_keys_generated"
    /\ observed.got.customer.usage_trend = "stable"

----------------------------------------------------------------------------
(* A tick of the monitoring loop is running *)
LoopIsTicking == \E k \in DOMAIN tasks : tasks[k].pc = "tick"

(* C17: a check that is in progress when stop() is called runs to
   completion before the loop exits: stop() does not end the loop in the
   middle of a check, and a check in which a rule calls for escalation
   appends its record and persists the ticket key the gateway returned. *)
C17_InFlightCheckCompletes ==
    [][(IsCheckStep /\ LoopIsTicking) =>
         LET id == snapshot[idx]
             type == EscalatingRule(customers[id], interventions, now)
         IN  /\ tasks' = tasks
             /\ running' = running
             /\ type # "none"
                   => /\ \E rec \in NewRecords : rec.type = type /\ rec.customer_id = id
                      /\ (event'.gateway = "ok" /\ ~HasFreshTicket(id, now))
                            => /\ HasAttr(customers'[id], "active_ticket_key")
                               /\ customers'[id].active_ticket_key
                                      = Len(ticketCalls) + 1]_vars

(* C18: after stop() on a running monitor the loop terminates and stop()
   returns, without waiting for the sleep to end; once the monitor is not
   running no tick runs and no record is appended until start() is called. *)
C18_StopEndsTheLoop ==
    /\ \A k \in 1..MaxStarts :
           (k \in stops) ~> (k \notin stops /\ k \in DOMAIN tasks /\ tasks[k].pc = "done")
    /\ [][stops # {} => now' = now]_vars
    /\ [][~running => (tickPc' = "idle" /\ appended' = appended
                                       /\ interventions' = interventions)]_vars

C18_StoppedAfterATick ==
    /\ ~running
    /\ stops = {}
    /\ tasks # <<>>
    /\ \A k \in DOMAIN tasks : tasks[k].pc = "done"
    /\ appended # <<>>
    /\ event.op = "sleep"
    /\ now > appended[Len(appended)].created_at

(* C20: the lock of the store is not held while the loop sleeps between two
   ticks, nor between two steps of a tick, so a store operation of another
   task during the sleep gets the lock without waiting. *)
C20_LockIsFreeWhileTheLoopWaits ==
    ((\E k \in DOMAIN tasks : tasks[k].pc \in {"sleep", "tick"}) \/ tickPc = "checking")
        => lock = "free"

C20_StoreCallDuringSleep ==
    /\ event.op = "update"
    /\ event.status = "ok"
    /\ \E k \in DOMAIN tasks : tasks[k].pc = "sleep" /\ ~tasks[k].cancel
    /\ running
    /\ lock = "free"
    /\ now > 0

----------------------------------------------------------------------------
(* C21: route_request routes every query that contains "401" to the
   onboarding specialist, also when the query contains general-support
   keywords such as "billing", and the target chosen for a given query text
   is always the same: every call that chose a target for a query with
   "401" chose onboarding, and chose what the first call with that query
   text chose. *)
C21_Query401GoesToOnboarding ==
    router.last.target # "-"
        => /\ Contains(router.last.query, "401") => router.last.target = "onboarding"
           /\ router.last.target = router.first[router.last.query]

C21_BillingAnd401GoesToQueryResolution ==
    /\ router.pc = "idle"
    /\ router.last.query = <<"billing", "401">>
    /\ router.last.target = "query_resolution"
    /\ router.first[<<"billing", "401">>] = "onboarding"

(* C29: every route_request call that starts a specialist stops it before
   it returns, also when the handler raises or returns no response, and
   route_request then returns an error response instead of raising: while a
   call waits for the handler its specialist is running, between two calls
   no specialist is running, and a call whose handler raised, returned None
   or was never reached returned the error response. *)
C29_StartedSpecialistIsStopped ==
    /\ router.pc = "handling" => router.running[router.target]
    /\ router.pc = "idle" => \A s \in SpecialistNames : ~router.running[s]
    /\ (router.last.started /\ router.last.handler # "response")
           => router.last.result = "error"
    /\ router.last.result \in {"-", "response", "error", "no_specialist"}

C29_HandlerRaisedAndSpecialistStopped ==
    /\ router.pc = "idle"
    /\ router.last.started
    /\ router.last.handler = "raise"
    /\ router.last.result = "error"
    /\ ~router.running[router.last.target]

----------------------------------------------------------------------------
(* C22: for every AgentMessage m, AgentMessage.from_dict(m.to_dict()) has
   the same id, sender, recipient, type and payload as m. *)
C22_RoundTripKeepsTheMessage ==
    wire.pc = "back"
        => /\ wire.back.id = wire.msg.id
           /\ wire.back.sender = wire.msg.sender
           /\ wire.back.recipient = wire.msg.recipient
           /\ wire.back.type = wire.msg.type
           /\ wire.back.payload = wire.msg.payload

C22_NestedPayloadCameBack ==
    /\ wire.pc = "back"
    /\ wire.data.timestamp = IsoFormat(DateTime(1, 500000))
    /\ wire.msg.id = "test_id_123"
    /\ \E i \in DOMAIN wire.msg.payload.items :
           wire.msg.payload.items[i].value.kind = "list"
    /\ wire.back = wire.msg

----------------------------------------------------------------------------
(* The fields of a CustomerProfile *)
ProfileFields ==
    {"customer_id", "created_at", "subscription_tier", "onboarding_stage",
     "total_api_calls", "integration_status", "error_rate", "usage_trend"}

(* C23: a successful update_customer(id, fields) changes exactly the
   supplied fields of customer id: every other field of that profile and
   every other profile are unchanged, a supplied field has the supplied
   value, and a supplied key that names no profile field changes nothing. *)
C23_UpdateChangesOnlySuppliedFields ==
    [][(event'.op = "update" /\ event'.status = "ok")
         => LET id == event'.customer_id
                updates == event'.updates
            IN  /\ DOMAIN customers' = DOMAIN customers
                /\ \A other \in DOMAIN customers \ {id} :
                       customers'[other] = customers[other]
                /\ DOMAIN customers'[id] = DOMAIN customers[id]
                /\ \A f \in DOMAIN customers[id] :
                       customers'[id][f] = IF f \in ProfileFields /\ Supplies(updates, f)
                                           THEN Supplied(updates, f)
                                           ELSE customers[id][f]]_vars

C23_UnknownKeyIsDropped ==
    /\ event.op = "update"
    /\ event.status = "ok"
    /\ event.customer_id = DemoNew
    /\ Supplies(event.updates, "active_ticket_key")
    /\ customers[DemoNew] = [DemoCustomers[DemoNew] EXCEPT !.usage_trend = "increasing"]
    /\ \A id \in DOMAIN DemoCustomers \ {DemoNew} : customers[id] = DemoCustomers[id]

----------------------------------------------------------------------------
(* C24: the profile a tick evaluates is a point-in-time snapshot: an
   update_customer applied after the tick obtained that customer's profile
   does not change the field values the detector reads for that customer
   during the same tick, so the check of a customer that was updated after
   the tick listed the customers appends what the detector returns for the
   profile as it was before the update. *)
C24_TickReadsASnapshot ==
    [][(IsCheckStep /\ stale.customer_id = snapshot[idx])
         => LET id == snapshot[idx]
                listed == [customers EXCEPT ![id] = stale.before]
                out == CheckCustomer(listed, interventions, stale.before, now,
                                     event'.gateway, Len(ticketCalls) + 1)
            IN  NewRecords = IF out.rec = NoIntervention THEN {} ELSE {out.rec}]_vars

C24_CheckSawTheMidTickUpdate ==
    /\ event.op = "check"
    /\ event.customer_id = DemoTrial
    /\ stale.customer_id = DemoTrial
    /\ stale.before = DemoCustomers[DemoTrial]
    /\ now = 0
    /\ appended = << Intervention("upsell_suggestion", DemoTrial, 0, NoTicket) >>

(* C26: when a manual check (_check_all_customers called directly, as the
   dashboard button does) runs concurrently with a tick, the log still gets
   at most one record per (customer_id, type) within 24 hours and
   create_ticket is called at most once per customer. *)
C26_ManualCheckKeepsTheLimits ==
    /\ \A i, j \in 1..Len(appended) :
           (i < j /\ appended[i].customer_id = appended[j].customer_id
                  /\ appended[i].type = appended[j].type)
               => appended[j].created_at >= appended[i].created_at + 24 * SecondsPerHour
    /\ \A id \in DOMAIN customers :
           Cardinality({k \in 1..Len(ticketCalls) : ticketCalls[k].customer_id = id}) <= 1

C26_BothChecksAppendedTheCheckIn ==
    /\ Len(interventions) = 2
    /\ interventions[1] = interventions[2]
    /\ interventions[1].type = "onboarding_check_in"
    /\ interventions[1].customer_id = DemoTrial
    /\ stale = NotUpdated
    /\ customers = DemoCustomers

(* C25: each completed track_api_activity call for an existing customer
   raises that customer's stored total_api_calls by exactly one, also when
   several calls for the same customer run concurrently: after N completed
   calls the counter is its initial value plus N, and it never decreases. *)
C25_CounterCountsCompletedCalls ==
    /\ [](\A id \in DOMAIN customers :
            customers[id].total_api_calls
                = DemoCustomers[id].total_api_calls
                  + Cardinality({k \in DOMAIN track.calls :
                                    /\ track.calls[k].pc = "done"
                                    /\ track.calls[k].customer_id = id}))
    /\ [][\A id \in DOMAIN customers :
            customers'[id].total_api_calls >= customers[id].total_api_calls]_vars

C25_TwoCallsCountedAsOne ==
    /\ Len(track.calls) = 2
    /\ \A k \in 1..2 : track.calls[k].pc = "done" /\ track.calls[k].customer_id = DemoNew
    /\ customers[DemoNew].total_api_calls = DemoCustomers[DemoNew].total_api_calls + 1

(* C27: after the supervisor has routed a finite number of tasks to
   specialist agents over a running InMemoryTransport, message traffic
   eventually stops: each routed task produces a bounded number of
   messages, and the transport queue becomes empty and stays empty. *)
C27_TrafficEventuallyStops == <>[](bus.queue = <<>>)

C27_ResponseAnsweredWithResponse ==
    /\ bus.routed = 1
    /\ bus.queue = << QueuedMessage("supervisor", "growth_agent", "response",
                                    ResponsePayload("Unknown message type")) >>

(* the loop tasks that are not done *)
AliveTasks == {k \in DOMAIN tasks : tasks[k].pc # "done"}

(* start() on a running monitor creates no task, and the task that a
   stop() waited for is done when that stop() returns *)
StartAndStopKeepTheirWord ==
    /\ (event'.op = "start" /\ running) => tasks' = tasks
    /\ (event'.op = "stop" /\ event'.status = "returned")
           => tasks[event'.customer_id].pc = "done"

(* C28: after any sequence of start() and stop() calls on one
   ProactiveMonitor, including calls that overlap, at most one monitoring
   loop task is alive: start() on a running monitor creates no second
   loop, and a loop cancelled by stop() is finished when stop() returns. *)
C28_AtMostOneLoopAlive ==
    /\ [](Cardinality(AliveTasks) <= 1)
    /\ [][StartAndStopKeepTheirWord]_vars

(* C28 as amended: at most one monitoring loop task is alive that has no
   cancellation pending; a task that start() creates while a stop() still
   waits for the cancelled one lives beside it until the CancelledError is
   delivered.  start() on a running monitor creates no second loop, and a
   loop cancelled by stop() is finished when stop() returns. *)
C28_AtMostOneLoopNotCancelled ==
    /\ [](Cardinality({k \in AliveTasks : ~tasks[k].cancel}) <= 1)
    /\ [][StartAndStopKeepTheirWord]_vars

C28_StartedWhileStopWaits ==
    /\ Len(tasks) = 2
    /\ tasks[1] = LoopTask("sleep", TRUE)
    /\ tasks[2] = LoopTask("created", FALSE)
    /\ stops = {1}
    /\ running

(* C30: get_recent_interventions(limit) returns at most limit records,
   namely the limit most recently appended records of the log, newest
   first, for every limit >= 0 and every log length. *)
C30_AtMostLimitNewestFirst ==
    LET n == Len(shown.of)
        k == Min(shown.limit, n)
    IN  /\ Len(shown.records) <= shown.limit
        /\ Len(shown.records) = k
        /\ \A i \in 1..k : shown.records[i] = shown.of[n + 1 - i]

C30_LimitZeroShowsTheLog ==
    /\ shown.limit = 0
    /\ Len(shown.of) > 3
    /\ Len(shown.records) = Len(shown.of)

====
